---------------------------- MODULE Spec2Model ----------------------------
(***************************************************************************)
(* Model of 09_job_queues/doc_ocr_jobs.py: the OCR handler parse_receipt,  *)
(* declared with retries=3, the local entrypoint main that resolves a      *)
(* receipt image and calls the handler synchronously, and the documented   *)
(* client that looks the function up and spawns tasks.                     *)
(***************************************************************************)
EXTENDS Integers, Sequences, FiniteSets, TLC

\* ---------------------------------------------------------------- bounds
\* Image payloads are byte strings; they are abstracted to 0..MaxPayload.
MaxPayload == 2
\* Number of tasks the documented client submits with fn.spawn.
MaxSpawn == 1

\* ------------------------------------------------------------- constants
\* @stub.function(..., retries=3): failures are retried up to 3 times.
retries == 3

Payloads == 0..MaxPayload
\* One job for main's call plus the spawned ones.
JobIds == 1..(MaxSpawn + 1)

NoImage == -1
NoJob == 0
NoResult == <<>>

\* Image.open(io.BytesIO(image)) raises on bytes that are not an image.
\* Payload 0 stands for such bytes; every other payload decodes.
Decodable(b) == b # 0

\* pretrained_model.inference(image=..., prompt="<s_cord-v2>")["predictions"][0]:
\* a deterministic function of the input image and the fixed task prompt.
Inference(b) == <<"s_cord-v2", b>>

VARIABLES
    fileExists,  \* receipt.png exists next to the script
    fileBytes,   \* its contents
    urlBytes,    \* the bytes served by the fallback URL
    pc,          \* main's position
    image,       \* main's local variable image
    reads,       \* number of times main read receipt.png
    fetches,     \* number of urllib.request.urlopen calls
    calls,       \* number of parse_receipt.call invocations made by main
    mainJob,     \* the job created by main's call
    printed,     \* what main wrote to standard output
    spawned,     \* number of fn.spawn submissions by the client
    status,      \* per job: "none", "queued", "running", "succeeded", "failed"
    payload,     \* per job: the image argument
    attempts,    \* per job: number of times the handler was started
    result       \* per job: the handler's return value

env == <<fileExists, fileBytes, urlBytes>>
mainVars == <<pc, image, reads, fetches, calls, mainJob, printed>>
jobVars == <<status, payload, attempts, result>>
vars == <<fileExists, fileBytes, urlBytes, pc, image, reads, fetches, calls,
          mainJob, printed, spawned, status, payload, attempts, result>>

Created == {j \in JobIds : status[j] # "none"}
\* Jobs are numbered in order of submission.
NextJob == Cardinality(Created) + 1

Init ==
    /\ fileExists \in BOOLEAN
    /\ fileBytes \in Payloads
    /\ urlBytes \in Payloads
    /\ pc = "start"
    /\ image = NoImage
    /\ reads = 0
    /\ fetches = 0
    /\ calls = 0
    /\ mainJob = NoJob
    /\ printed = <<>>
    /\ spawned = 0
    /\ status = [j \in JobIds |-> "none"]
    /\ payload = [j \in JobIds |-> NoImage]
    /\ attempts = [j \in JobIds |-> 0]
    /\ result = [j \in JobIds |-> NoResult]

\* Submission of one task with argument b: a new queued job.
Submit(j, b) ==
    /\ status' = [status EXCEPT ![j] = "queued"]
    /\ payload' = [payload EXCEPT ![j] = b]
    /\ UNCHANGED <<attempts, result>>

\* ------------------------------------------------------------------ main
\* The branches of the existence test taken the wrong way round.
MainCheck_Inverted ==
    /\ pc = "start"
    /\ pc' = IF fileExists THEN "fetch" ELSE "read"
    /\ UNCHANGED <<env, image, reads, fetches, calls, mainJob, printed,
                   spawned, jobVars>>

\* if receipt_filename.exists():
MainCheck ==
    /\ pc = "start"
    /\ pc' = IF fileExists THEN "read" ELSE "fetch"
    /\ UNCHANGED <<env, image, reads, fetches, calls, mainJob, printed,
                   spawned, jobVars>>

\* with open(receipt_filename, "rb") as f: image = f.read()
MainRead ==
    /\ pc = "read"
    /\ image' = fileBytes
    /\ reads' = reads + 1
    /\ pc' = "call"
    /\ UNCHANGED <<env, fetches, calls, mainJob, printed, spawned, jobVars>>

\* open() or read() raises OSError: main ends with the exception.
MainReadRaises ==
    /\ pc = "read"
    /\ reads' = reads + 1
    /\ pc' = "raised"
    /\ UNCHANGED <<env, image, fetches, calls, mainJob, printed, spawned,
                   jobVars>>

\* image = urllib.request.urlopen(URL).read()
MainFetch ==
    /\ pc = "fetch"
    /\ image' = urlBytes
    /\ fetches' = fetches + 1
    /\ pc' = "call"
    /\ UNCHANGED <<env, reads, calls, mainJob, printed, spawned, jobVars>>

\* urlopen() or read() raises URLError: main ends with the exception.
MainFetchRaises ==
    /\ pc = "fetch"
    /\ fetches' = fetches + 1
    /\ pc' = "raised"
    /\ UNCHANGED <<env, image, reads, calls, mainJob, printed, spawned,
                   jobVars>>

\* parse_receipt.call(image): the argument of print is evaluated first.
MainCall ==
    /\ pc = "call"
    /\ NextJob \in JobIds
    /\ Submit(NextJob, image)
    /\ mainJob' = NextJob
    /\ calls' = calls + 1
    /\ pc' = "waiting"
    /\ UNCHANGED <<env, image, reads, fetches, printed, spawned>>

\* The call returns the handler's return value.
MainCallReturns ==
    /\ pc = "waiting"
    /\ status[mainJob] = "succeeded"
    /\ pc' = "print"
    /\ UNCHANGED <<env, image, reads, fetches, calls, mainJob, printed,
                   spawned, jobVars>>

\* The call raises: main has no try/except, so it ends with the exception.
MainCallRaises ==
    /\ pc = "waiting"
    /\ status[mainJob] = "failed"
    /\ pc' = "raised"
    /\ UNCHANGED <<env, image, reads, fetches, calls, mainJob, printed,
                   spawned, jobVars>>

\* print(<the value returned by the call>)
MainPrint ==
    /\ pc = "print"
    /\ printed' = Append(printed, result[mainJob])
    /\ pc' = "done"
    /\ UNCHANGED <<env, image, reads, fetches, calls, mainJob, spawned,
                   jobVars>>

\* ---------------------------------------------------------------- client
\* fn = modal.Function.lookup("example-doc-ocr-jobs", "parse_receipt")
\* fn.spawn(my_image)
Spawn(b) ==
    /\ spawned < MaxSpawn
    /\ NextJob \in JobIds
    /\ Submit(NextJob, b)
    /\ spawned' = spawned + 1
    /\ UNCHANGED <<env, mainVars>>

\* --------------------------------------------------------- parse_receipt
\* Off by one: one retry more than declared.
CanRetry_OneMore(j) == attempts[j] - 1 < retries + 1

\* A failed execution is retried while fewer than `retries` retries were made
\* (attempts[j] - 1 retries have been made when execution attempts[j] fails).
CanRetry(j) == attempts[j] - 1 < retries

\* The handler is started on a queued job.
StartAttempt(j) ==
    /\ status[j] = "queued"
    /\ status' = [status EXCEPT ![j] = "running"]
    /\ attempts' = [attempts EXCEPT ![j] = @ + 1]
    /\ UNCHANGED <<env, mainVars, spawned, payload, result>>

\* The body runs to `return output`.
HandlerReturns(j) ==
    /\ status[j] = "running"
    /\ Decodable(payload[j])
    /\ status' = [status EXCEPT ![j] = "succeeded"]
    /\ result' = [result EXCEPT ![j] = Inference(payload[j])]
    /\ UNCHANGED <<env, mainVars, spawned, payload, attempts>>

\* The body raises (model load, CUDA device, image decoding, inference) and
\* retries remain: the job is run again.
HandlerRaisesRetried(j) ==
    /\ status[j] = "running"
    /\ CanRetry(j)
    /\ status' = [status EXCEPT ![j] = "queued"]
    /\ UNCHANGED <<env, mainVars, spawned, payload, attempts, result>>

\* The body raises and no retry remains: the job has failed.
HandlerRaisesFinal(j) ==
    /\ status[j] = "running"
    /\ ~CanRetry(j)
    /\ status' = [status EXCEPT ![j] = "failed"]
    /\ UNCHANGED <<env, mainVars, spawned, payload, attempts, result>>

Next ==
    \/ MainCheck
    \/ MainRead
    \/ MainReadRaises
    \/ MainFetch
    \/ MainFetchRaises
    \/ MainCall
    \/ MainCallReturns
    \/ MainCallRaises
    \/ MainPrint
    \/ \E b \in Payloads : Spawn(b)
    \/ \E j \in JobIds : StartAttempt(j)
    \/ \E j \in JobIds : HandlerReturns(j)
    \/ \E j \in JobIds : HandlerRaisesRetried(j)
    \/ \E j \in JobIds : HandlerRaisesFinal(j)

Spec == Init /\ [][Next]_vars

\* ----------------------------------------------------------------- C1
\* The job has failed for good: its last execution raised and it is not run
\* again.
Failed(j) == status[j] = "failed"

\* C1 (as stated): with k = 3 for parse_receipt, a job whose every execution
\* raises has failed after exactly 3 executions, and no job is ever executed
\* a 4th time.
C1_ThreeAttempts ==
    \A j \in JobIds :
        /\ attempts[j] <= retries
        /\ (Failed(j) => attempts[j] = retries)

\* C1 (amended): retries=3 counts the retries, not the executions. A job
\* whose every execution raises has failed after exactly 1 + 3 = 4
\* executions: no job is ever executed a 5th time, and no job has failed
\* with fewer than 4 executions.
C1_FourAttempts ==
    \A j \in JobIds :
        /\ attempts[j] <= retries + 1
        /\ (Failed(j) => attempts[j] = retries + 1)

\* A job submitted with undecodable bytes has failed after its 4th execution.
C1_Witness ==
    \E j \in JobIds :
        /\ Failed(j)
        /\ ~Decodable(payload[j])
        /\ attempts[j] = 4

\* ----------------------------------------------------------------- C6
\* The payload main is to use: receipt.png's bytes if the file exists, else
\* the bytes served by the fallback URL.
Resolved == IF fileExists THEN fileBytes ELSE urlBytes

\* C6: main reads receipt.png and fetches nothing when the file exists, and
\* fetches the fallback URL otherwise; it calls parse_receipt at most once,
\* with the resolved payload, and exactly once when it completes; it waits
\* for the call (it passes the call only once the job has succeeded, and
\* ends with the exception once the job has failed), and prints exactly the
\* call's result, after the call has returned.
C6_MainResolvesCallsPrints ==
    /\ calls <= 1
    /\ (fileExists => fetches = 0)
    /\ (~fileExists => reads = 0)
    /\ (image # NoImage => image = Resolved)
    /\ (calls = 1 =>
            /\ mainJob # NoJob
            /\ payload[mainJob] = Resolved
            /\ reads + fetches = 1)
    /\ (pc \in {"print", "done"} =>
            /\ calls = 1
            /\ status[mainJob] = "succeeded"
            /\ result[mainJob] = Inference(Resolved))
    /\ (pc = "raised" /\ calls = 1 => status[mainJob] = "failed")
    /\ (pc = "done" => printed = <<Inference(Resolved)>>)
    /\ (pc # "done" => printed = <<>>)

\* main has completed on the fallback path: no local file, one fetch, one
\* call, and the printed result is the prediction for the fetched bytes,
\* which differ from the bytes a local file would have held.
C6_Witness ==
    /\ pc = "done"
    /\ ~fileExists
    /\ fetches = 1
    /\ reads = 0
    /\ calls = 1
    /\ fileBytes # urlBytes
    /\ printed = <<Inference(urlBytes)>>

=============================================================================
